---- MODULE Spec2Model ----
(***************************************************************************)
(* Model of src/task/content_generation/interest_discovery.py:            *)
(* InterestDiscoveryParams, InterestDiscoveryResult and the two entry     *)
(* points InterestDiscovery.discover / InterestDiscovery.adiscover.       *)
(*                                                                         *)
(* Representation:                                                         *)
(*  - a Python str is a sequence of one-character strings;                 *)
(*  - an Optional[int] is a sequence of length <= 1 (None is << >>);       *)
(*  - a float temperature is an integer number of tenths (0.7 is 7);       *)
(*  - keyword arguments are a function whose DOMAIN is the set of          *)
(*    keywords actually passed.                                            *)
(***************************************************************************)
EXTENDS Integers, Sequences, FiniteSets, TLC

VARIABLES
    model,       \* self.model, set by __init__
    logger,      \* self.logger, set by __init__
    pc,          \* per call: position of the caller / coroutine
    kind,        \* per call: which entry point was used
    given,       \* per call: keyword arguments given to InterestDiscoveryParams
    params,      \* per call: the constructed InterestDiscoveryParams
    llm_params,  \* per call: the LmGentxtParams handed to the model
    llm_result,  \* per call: what the model interface answered
    result,      \* per call: the InterestDiscoveryResult returned
    raised,      \* per call: the exception that reached the caller
    trace        \* per call: the steps executed, in order

vars == <<model, logger, pc, kind, given, params, llm_params, llm_result,
          result, raised, trace>>

-----------------------------------------------------------------------------
(* Bounds *)

NumCalls == 2     \* calls in flight on one InterestDiscovery instance
MaxLen == 1       \* longest generated field_of_topic / keywords string

Calls == 1..NumCalls

-----------------------------------------------------------------------------
(* Program constants *)

DefaultMaxTokens == 4000
DefaultTemperature == 7

FieldOfTopicName == <<"f", "i", "e", "l", "d", "_", "o", "f", "_", "t", "o", "p", "i", "c">>
KeywordsName == <<"k", "e", "y", "w", "o", "r", "d", "s">>

\* The template of prompts.py, whose text is not among the sources: a template
\* with the two named slots, "Field: {field_of_topic}; keywords: {keywords}."
INTEREST_DISCOVERY_PROMPT_TEMPLATE ==
    <<"F", "i", "e", "l", "d", ":", " ",
      "{", "f", "i", "e", "l", "d", "_", "o", "f", "_", "t", "o", "p", "i", "c", "}",
      ";", " ", "k", "e", "y", "w", "o", "r", "d", "s", ":", " ",
      "{", "k", "e", "y", "w", "o", "r", "d", "s", "}", ".">>

\* The system prompt of prompts.py, whose text is not among the sources: some
\* fixed string
INTEREST_DISCOVERY_SYSTEM_PROMPT ==
    <<"Y", "o", "u", " ", "f", "i", "n", "d", " ", "q", "u", "e", "s", "t", "i", "o", "n", "s", ".">>

-----------------------------------------------------------------------------
(* Placeholders for "no value yet" *)

NoArgs == [absent |-> "args"]
NoParams == [absent |-> "params"]
NoLlmParams == [absent |-> "llm_params"]
NoLlmResult == [absent |-> "llm_result"]
NoResult == [absent |-> "result"]
NoError == [absent |-> "error"]

\* an exception object
Exception(name) == [exception |-> name]

-----------------------------------------------------------------------------
(* str.format *)

\* Index of the first "}" in t at or after position i, 0 when there is none.
RECURSIVE FindClose(_, _)
FindClose(t, i) ==
    IF i > Len(t) THEN 0
    ELSE IF t[i] = "}" THEN i
    ELSE FindClose(t, i + 1)

\* str.format(**kwargs) from position i on: literal text is copied, "{{" and
\* "}}" give one brace, "{name}" gives kwargs[name] as it is.  The result is
\* [err, text]; err is NoError on success and the exception otherwise.
RECURSIVE FormatFrom(_, _, _)
FormatFrom(t, i, kwargs) ==
    IF i > Len(t) THEN [err |-> NoError, text |-> <<>>]
    ELSE IF t[i] = "{" THEN
        IF i < Len(t) /\ t[i + 1] = "{" THEN
            LET rest == FormatFrom(t, i + 2, kwargs)
            IN  [err |-> rest.err, text |-> <<"{">> \o rest.text]
        ELSE
            LET j == FindClose(t, i + 1)
            IN  IF j = 0 THEN [err |-> Exception("ValueError"), text |-> <<>>]
                ELSE LET name == SubSeq(t, i + 1, j - 1)
                     IN  IF name = <<>> THEN [err |-> Exception("IndexError"), text |-> <<>>]
                         ELSE IF name \notin DOMAIN kwargs
                         THEN [err |-> Exception("KeyError"), text |-> <<>>]
                         ELSE LET rest == FormatFrom(t, j + 1, kwargs)
                              IN  [err |-> rest.err, text |-> kwargs[name] \o rest.text]
    ELSE IF t[i] = "}" THEN
        IF i < Len(t) /\ t[i + 1] = "}" THEN
            LET rest == FormatFrom(t, i + 2, kwargs)
            IN  [err |-> rest.err, text |-> <<"}">> \o rest.text]
        ELSE [err |-> Exception("ValueError"), text |-> <<>>]
    ELSE
        LET rest == FormatFrom(t, i + 1, kwargs)
        IN  [err |-> rest.err, text |-> <<t[i]>> \o rest.text]

\* a format that scans its own output again, so that braces in a value are
\* read as template syntax
FormatRescanned(t, kwargs) ==
    LET r == FormatFrom(t, 1, kwargs)
    IN  IF r.err = NoError THEN FormatFrom(r.text, 1, kwargs)
        ELSE [err |-> r.err, text |-> <<>>]

Format(t, kwargs) ==
    LET r == FormatFrom(t, 1, kwargs)
    IN  IF r.err = NoError THEN r ELSE [err |-> r.err, text |-> <<>>]

-----------------------------------------------------------------------------
(* Data classes *)

\* a constructor whose Field defaults are those of another component
InterestDiscoveryParamsOtherDefaults(args) ==
    IF "field_of_topic" \notin DOMAIN args \/ "keywords" \notin DOMAIN args
    THEN [ok |-> FALSE, value |-> NoParams]
    ELSE [ok |-> TRUE,
          value |-> [field_of_topic |-> args["field_of_topic"],
                     keywords |-> args["keywords"],
                     max_tokens |-> IF "max_tokens" \in DOMAIN args
                                    THEN args["max_tokens"]
                                    ELSE <<>>,
                     temperature |-> IF "temperature" \in DOMAIN args
                                     THEN args["temperature"]
                                     ELSE 3]]

\* InterestDiscoveryParams(**args): field_of_topic and keywords are required,
\* max_tokens and temperature take their Field defaults when not passed.
InterestDiscoveryParams(args) ==
    IF "field_of_topic" \notin DOMAIN args \/ "keywords" \notin DOMAIN args
    THEN [ok |-> FALSE, value |-> NoParams]
    ELSE [ok |-> TRUE,
          value |-> [field_of_topic |-> args["field_of_topic"],
                     keywords |-> args["keywords"],
                     max_tokens |-> IF "max_tokens" \in DOMAIN args
                                    THEN args["max_tokens"]
                                    ELSE <<DefaultMaxTokens>>,
                     temperature |-> IF "temperature" \in DOMAIN args
                                     THEN args["temperature"]
                                     ELSE DefaultTemperature]]

\* InterestDiscoveryResult(...)
InterestDiscoveryResult(field_of_topic, keywords, interest_analysis, input_tokens, output_tokens) ==
    [field_of_topic |-> field_of_topic,
     keywords |-> keywords,
     interest_analysis |-> interest_analysis,
     input_tokens |-> input_tokens,
     output_tokens |-> output_tokens]

\* LmGentxtParams(...): the generation request of the model interface
LmGentxtParams(system_prompt, prompt, max_new_tokens, temperature) ==
    [system_prompt |-> system_prompt,
     prompt |-> prompt,
     max_new_tokens |-> max_new_tokens,
     temperature |-> temperature]

-----------------------------------------------------------------------------
(* The model interface: LmBasis.gentxt / LmBasis.agentxt *)

\* LmGentxtResult(output, input_tokens, output_tokens) returned normally
Returned(output, input_tokens, output_tokens) ==
    [status |-> "ok",
     value |-> [output |-> output,
                input_tokens |-> input_tokens,
                output_tokens |-> output_tokens]]

\* an exception raised by the model interface
Raised(name) == [status |-> "error", error |-> Exception(name)]

-----------------------------------------------------------------------------
(* InterestDiscovery.discover, statement by statement *)

FormatKwargs(field_of_topic, keywords) ==
    [n \in {FieldOfTopicName, KeywordsName} |->
        IF n = FieldOfTopicName THEN field_of_topic ELSE keywords]

\* prompt = INTEREST_DISCOVERY_PROMPT_TEMPLATE.format(...)
DiscoverPrompt(p) ==
    Format(INTEREST_DISCOVERY_PROMPT_TEMPLATE,
           FormatKwargs(p.field_of_topic, p.keywords))

\* llm_params = LmGentxtParams(...)
DiscoverLlmParams(p, prompt) ==
    LmGentxtParams(INTEREST_DISCOVERY_SYSTEM_PROMPT, prompt,
                   p.max_tokens, p.temperature)

\* a result that echoes the two request strings into each other's field
DiscoverResultCrossed(p, r) ==
    InterestDiscoveryResult(p.keywords, p.field_of_topic, r.output,
                            r.input_tokens, r.output_tokens)

\* result = InterestDiscoveryResult(...)
DiscoverResult(p, r) ==
    InterestDiscoveryResult(p.field_of_topic, p.keywords, r.output,
                            r.input_tokens, r.output_tokens)

\* discover announcing completion before the model has been called
DiscoverStepsEarlySuccess ==
    <<"logger.info:start", "format", "LmGentxtParams", "logger.success", "gentxt">>

\* the steps of discover up to and including the call of self.model.gentxt
DiscoverSteps ==
    <<"logger.info:start", "format", "LmGentxtParams", "gentxt">>

\* the steps of discover after self.model.gentxt has returned
DiscoverStepsAfter ==
    <<"InterestDiscoveryResult", "logger.success", "logger.info:tokens", "return">>

\* a discover that swallows the exception and returns an empty analysis
DiscoverOnErrorFallback(error) ==
    [pc |-> "returned",
     result |-> InterestDiscoveryResult(<<>>, <<>>, <<>>, 0, 0),
     raised |-> NoError,
     steps |-> <<"InterestDiscoveryResult", "return">>]

\* an exception raised inside discover: nothing catches it
DiscoverOnError(error) ==
    [pc |-> "raised", result |-> NoResult, raised |-> error, steps |-> <<"raise">>]

-----------------------------------------------------------------------------
(* InterestDiscovery.adiscover, statement by statement *)

\* a prompt whose two keyword arguments are exchanged
AdiscoverPromptCrossed(p) ==
    Format(INTEREST_DISCOVERY_PROMPT_TEMPLATE,
           FormatKwargs(p.keywords, p.field_of_topic))

\* prompt = INTEREST_DISCOVERY_PROMPT_TEMPLATE.format(...)
AdiscoverPrompt(p) ==
    Format(INTEREST_DISCOVERY_PROMPT_TEMPLATE,
           FormatKwargs(p.field_of_topic, p.keywords))

\* a request builder that replaces a missing max_tokens by the default
AdiscoverLlmParamsDefaulted(p, prompt) ==
    LmGentxtParams(INTEREST_DISCOVERY_SYSTEM_PROMPT, prompt,
                   IF p.max_tokens = <<>> THEN <<DefaultMaxTokens>> ELSE p.max_tokens,
                   p.temperature)

\* llm_params = LmGentxtParams(...)
AdiscoverLlmParams(p, prompt) ==
    LmGentxtParams(INTEREST_DISCOVERY_SYSTEM_PROMPT, prompt,
                   p.max_tokens, p.temperature)

\* a result with the two token counters exchanged
AdiscoverResultTokensCrossed(p, r) ==
    InterestDiscoveryResult(p.field_of_topic, p.keywords, r.output,
                            r.output_tokens, r.input_tokens)

\* result = InterestDiscoveryResult(...)
AdiscoverResult(p, r) ==
    InterestDiscoveryResult(p.field_of_topic, p.keywords, r.output,
                            r.input_tokens, r.output_tokens)

\* the steps of adiscover up to and including the call of self.model.agentxt
AdiscoverSteps ==
    <<"logger.info:start", "format", "LmGentxtParams", "agentxt">>

\* the steps of adiscover after the await has delivered a value
AdiscoverStepsAfter ==
    <<"InterestDiscoveryResult", "logger.success", "logger.info:tokens", "return">>

\* an exception raised inside adiscover: nothing catches it
AdiscoverOnError(error) ==
    [pc |-> "raised", result |-> NoResult, raised |-> error, steps |-> <<"raise">>]

\* an adiscover that keeps the answer in a slot shared by all calls: a call
\* resumes with the answer of whichever call is ready first
AdiscoverFrameShared(c) ==
    [params |-> params[c],
     llm_result |-> llm_result[CHOOSE d \in Calls : pc[d] = "ready"]]

\* the locals of the coroutine of call c when it resumes after the await
AdiscoverFrame(c) ==
    [params |-> params[c], llm_result |-> llm_result[c]]

-----------------------------------------------------------------------------
(* State machine *)

\* InterestDiscovery.__init__: the handles are bound, no call has started
Init ==
    /\ model = "model"
    /\ logger = "interest_discovery"
    /\ pc = [c \in Calls |-> "idle"]
    /\ kind = [c \in Calls |-> "none"]
    /\ given = [c \in Calls |-> NoArgs]
    /\ params = [c \in Calls |-> NoParams]
    /\ llm_params = [c \in Calls |-> NoLlmParams]
    /\ llm_result = [c \in Calls |-> NoLlmResult]
    /\ result = [c \in Calls |-> NoResult]
    /\ raised = [c \in Calls |-> NoError]
    /\ trace = [c \in Calls |-> <<>>]

\* the caller of call c builds its request: InterestDiscoveryParams(**args)
NewParams(c, args) ==
    /\ pc[c] = "idle"
    /\ given' = [given EXCEPT ![c] = args]
    /\ LET r == InterestDiscoveryParams(args)
       IN  IF r.ok
           THEN /\ params' = [params EXCEPT ![c] = r.value]
                /\ pc' = [pc EXCEPT ![c] = "constructed"]
                /\ raised' = raised
           ELSE /\ params' = params
                /\ pc' = [pc EXCEPT ![c] = "rejected"]
                /\ raised' = [raised EXCEPT ![c] = Exception("ValidationError")]
    /\ UNCHANGED <<model, logger, kind, llm_params, llm_result, result, trace>>

\* discover(params): the whole blocking call; answer is what gentxt does
Discover(c, answer) ==
    /\ pc[c] = "constructed"
    /\ kind' = [kind EXCEPT ![c] = "discover"]
    /\ LET p == params[c]
           prompt == DiscoverPrompt(p)
       IN  IF prompt.err # NoError
           THEN LET out == DiscoverOnError(prompt.err)
                IN  /\ pc' = [pc EXCEPT ![c] = out.pc]
                    /\ result' = [result EXCEPT ![c] = out.result]
                    /\ raised' = [raised EXCEPT ![c] = out.raised]
                    /\ trace' = [trace EXCEPT ![c] =
                                    <<"logger.info:start", "format">> \o out.steps]
                    /\ UNCHANGED <<llm_params, llm_result>>
           ELSE /\ llm_params' = [llm_params EXCEPT ![c] =
                                    DiscoverLlmParams(p, prompt.text)]
                /\ llm_result' = [llm_result EXCEPT ![c] = answer]
                /\ IF answer.status = "ok"
                   THEN /\ result' = [result EXCEPT ![c] =
                                        DiscoverResult(p, answer.value)]
                        /\ pc' = [pc EXCEPT ![c] = "returned"]
                        /\ raised' = raised
                        /\ trace' = [trace EXCEPT ![c] =
                                        DiscoverSteps \o <<"model:ok">>
                                            \o DiscoverStepsAfter]
                   ELSE LET out == DiscoverOnError(answer.error)
                        IN  /\ pc' = [pc EXCEPT ![c] = out.pc]
                            /\ result' = [result EXCEPT ![c] = out.result]
                            /\ raised' = [raised EXCEPT ![c] = out.raised]
                            /\ trace' = [trace EXCEPT ![c] =
                                            DiscoverSteps \o <<"model:raise">>
                                                \o out.steps]
    /\ UNCHANGED <<model, logger, given, params>>

\* adiscover(params) from its start to the await on self.model.agentxt
AdiscoverCall(c) ==
    /\ pc[c] = "constructed"
    /\ kind' = [kind EXCEPT ![c] = "adiscover"]
    /\ LET p == params[c]
           prompt == AdiscoverPrompt(p)
       IN  IF prompt.err # NoError
           THEN LET out == AdiscoverOnError(prompt.err)
                IN  /\ pc' = [pc EXCEPT ![c] = out.pc]
                    /\ result' = [result EXCEPT ![c] = out.result]
                    /\ raised' = [raised EXCEPT ![c] = out.raised]
                    /\ trace' = [trace EXCEPT ![c] =
                                    <<"logger.info:start", "format">> \o out.steps]
                    /\ UNCHANGED llm_params
           ELSE /\ llm_params' = [llm_params EXCEPT ![c] =
                                    AdiscoverLlmParams(p, prompt.text)]
                /\ pc' = [pc EXCEPT ![c] = "awaiting"]
                /\ trace' = [trace EXCEPT ![c] = AdiscoverSteps]
                /\ UNCHANGED <<result, raised>>
    /\ UNCHANGED <<model, logger, given, params, llm_result>>

\* the model interface completes the agentxt awaitable of call c
AgentxtDone(c, answer) ==
    /\ pc[c] = "awaiting"
    /\ llm_result' = [llm_result EXCEPT ![c] = answer]
    /\ pc' = [pc EXCEPT ![c] = "ready"]
    /\ trace' = [trace EXCEPT ![c] =
                    Append(@, IF answer.status = "ok" THEN "model:ok"
                                                      ELSE "model:raise")]
    /\ UNCHANGED <<model, logger, kind, given, params, llm_params, result, raised>>

\* the event loop resumes adiscover with the value of the await
AdiscoverResume(c) ==
    /\ pc[c] = "ready"
    /\ AdiscoverFrame(c).llm_result.status = "ok"
    /\ LET f == AdiscoverFrame(c)
       IN  result' = [result EXCEPT ![c] =
                        AdiscoverResult(f.params, f.llm_result.value)]
    /\ pc' = [pc EXCEPT ![c] = "returned"]
    /\ trace' = [trace EXCEPT ![c] = @ \o AdiscoverStepsAfter]
    /\ UNCHANGED <<model, logger, kind, given, params, llm_params, llm_result, raised>>

\* the event loop resumes adiscover by throwing the exception of the await
AdiscoverThrow(c) ==
    /\ pc[c] = "ready"
    /\ AdiscoverFrame(c).llm_result.status = "error"
    /\ LET out == AdiscoverOnError(AdiscoverFrame(c).llm_result.error)
       IN  /\ pc' = [pc EXCEPT ![c] = out.pc]
           /\ result' = [result EXCEPT ![c] = out.result]
           /\ raised' = [raised EXCEPT ![c] = out.raised]
           /\ trace' = [trace EXCEPT ![c] = @ \o out.steps]
    /\ UNCHANGED <<model, logger, kind, given, params, llm_params, llm_result>>

-----------------------------------------------------------------------------
(* Inputs *)

Alphabet == {"a", "{", "}"}

Strings(n) == UNION {[1..k -> Alphabet] : k \in 0..n}

Slot(name) == <<"{">> \o name \o <<"}">>

\* strings for field_of_topic / keywords, among them whole template slots
RichStrings ==
    Strings(MaxLen) \cup {Slot(KeywordsName), Slot(FieldOfTopicName), <<"{", "{">>}

Opt(S) == {<<>>} \cup {<<s>> : s \in S}

\* keyword arguments; an empty f, k, m or t means "not passed"
Kwargs(f, k, m, t) ==
    LET D == (IF f = <<>> THEN {} ELSE {"field_of_topic"})
               \cup (IF k = <<>> THEN {} ELSE {"keywords"})
               \cup (IF m = <<>> THEN {} ELSE {"max_tokens"})
               \cup (IF t = <<>> THEN {} ELSE {"temperature"})
    IN  [n \in D |-> CASE n = "field_of_topic" -> f[1]
                       [] n = "keywords" -> k[1]
                       [] n = "max_tokens" -> m[1]
                       [] n = "temperature" -> t[1]]

MaxTokensInputs == {<<>>, <<-1>>, <<0>>, <<4000>>}
TemperatureInputs == {0, 20}

RichArgs ==
    {Kwargs(f, k, m, t) : f \in Opt(RichStrings), k \in Opt(RichStrings),
                          m \in Opt(MaxTokensInputs), t \in Opt(TemperatureInputs)}

RichAnswers ==
    {Returned(o, i, n) : o \in {<<"Q">>, <<"{", "}">>}, i \in {120}, n \in {45, 120}}
        \cup {Raised("timeout"), Raised("quota")}

SmallArgs ==
    {Kwargs(f, <<<<"k">>>>, m, <<>>) : f \in Opt({<<"a">>, <<"b">>}),
                                       m \in Opt({<<>>})}

SmallAnswers ==
    {Returned(<<"Q">>, 120, 45), Returned(<<"R">>, 3, 9), Raised("timeout")}

-----------------------------------------------------------------------------
(* Specifications *)

\* any number of calls on one instance, interleaved at the await
Next ==
    \E c \in Calls :
        \/ \E args \in SmallArgs : NewParams(c, args)
        \/ \E answer \in SmallAnswers : Discover(c, answer)
        \/ AdiscoverCall(c)
        \/ \E answer \in SmallAnswers : AgentxtDone(c, answer)
        \/ AdiscoverResume(c)
        \/ AdiscoverThrow(c)

Spec == Init /\ [][Next]_vars

\* one call, every request and every answer of the model
NextOne ==
    \/ \E args \in RichArgs : NewParams(1, args)
    \/ \E answer \in RichAnswers : Discover(1, answer)
    \/ AdiscoverCall(1)
    \/ \E answer \in RichAnswers : AgentxtDone(1, answer)
    \/ AdiscoverResume(1)
    \/ AdiscoverThrow(1)

SpecOne == Init /\ [][NextOne]_vars

-----------------------------------------------------------------------------
(* Vocabulary of the properties *)

Started(c) == kind[c] # "none"
Sent(c) == llm_params[c] # NoLlmParams
Finished(c) == pc[c] \in {"returned", "raised"}
Invocations(c) ==
    Cardinality({i \in DOMAIN trace[c] : trace[c][i] \in {"gentxt", "agentxt"}})

\* position of the first occurrence of step e in tr, 0 when it is absent
Pos(tr, e) ==
    IF \E i \in DOMAIN tr : tr[i] = e
    THEN CHOOSE i \in DOMAIN tr : tr[i] = e /\ \A j \in 1..(i - 1) : tr[j] # e
    ELSE 0

\* a occurs in tr, and b, when it occurs, occurs later
Precedes(tr, a, b) == Pos(tr, b) > 0 => (Pos(tr, a) > 0 /\ Pos(tr, a) < Pos(tr, b))

IsSubstring(x, y) ==
    \E i \in 0..(Len(y) - Len(x)) : SubSeq(y, i + 1, i + Len(x)) = x

\* the literal text of the template before, between and after its two slots
TemplateHead == <<"F", "i", "e", "l", "d", ":", " ">>
TemplateMiddle == <<";", " ", "k", "e", "y", "w", "o", "r", "d", "s", ":", " ">>
TemplateTail == <<".">>

Filled(field_of_topic, keywords) ==
    TemplateHead \o field_of_topic \o TemplateMiddle \o keywords \o TemplateTail

-----------------------------------------------------------------------------
(* Properties *)

\* C1: every result returned by discover or adiscover carries the request's
\* field_of_topic and keywords unchanged, whatever the model answered.
EchoInvariant ==
    \A c \in Calls :
        pc[c] = "returned" =>
            /\ result[c] # NoResult
            /\ result[c].field_of_topic = params[c].field_of_topic
            /\ result[c].keywords = params[c].keywords
            /\ result[c].field_of_topic = given[c]["field_of_topic"]
            /\ result[c].keywords = given[c]["keywords"]

EchoWitness ==
    \E c \in Calls :
        /\ pc[c] = "returned"
        /\ kind[c] = "discover"
        /\ params[c].field_of_topic # params[c].keywords
        /\ params[c].field_of_topic # <<>>
        /\ result[c].interest_analysis # params[c].field_of_topic

\* C2: the token counters and the analysis text of a returned result are
\* exactly the values the model interface returned for that call.
PassThrough ==
    \A c \in Calls :
        pc[c] = "returned" =>
            /\ llm_result[c].status = "ok"
            /\ result[c].interest_analysis = llm_result[c].value.output
            /\ result[c].input_tokens = llm_result[c].value.input_tokens
            /\ result[c].output_tokens = llm_result[c].value.output_tokens

PassThroughWitness ==
    \E c \in Calls :
        /\ pc[c] = "returned"
        /\ kind[c] = "adiscover"
        /\ llm_result[c].value.input_tokens # llm_result[c].value.output_tokens
        /\ llm_result[c].value.output = <<"{", "}">>

\* C3: when the model interface raises, the caller gets that same exception,
\* no result exists for the call, and the model was invoked exactly once.
ErrorPropagates ==
    \A c \in Calls :
        (llm_result[c] # NoLlmResult /\ llm_result[c].status = "error") =>
            /\ pc[c] \in {"ready", "raised"}
            /\ result[c] = NoResult
            /\ Invocations(c) = 1
            /\ pc[c] = "raised" => raised[c] = llm_result[c].error

ErrorPropagatesWitness ==
    \E c \in Calls :
        /\ pc[c] = "raised"
        /\ kind[c] = "discover"
        /\ llm_result[c] = Raised("quota")
        /\ raised[c] = Exception("quota")

\* C4: a discover call and an adiscover call on equal requests send equal
\* generation requests, and when the model answers the two equal requests
\* alike (a deterministic model does) they end alike: equal results, or the
\* same exception.
SyncAsyncEquivalent ==
    \A c, d \in Calls :
        (/\ kind[c] = "discover"
         /\ kind[d] = "adiscover"
         /\ params[c] = params[d]) =>
            /\ llm_params[c] = llm_params[d]
            /\ (Finished(c) /\ Finished(d) /\ llm_result[c] = llm_result[d]) =>
                   /\ pc[c] = pc[d]
                   /\ result[c] = result[d]
                   /\ raised[c] = raised[d]

SyncAsyncWitness ==
    \E c, d \in Calls :
        /\ kind[c] = "discover"
        /\ kind[d] = "adiscover"
        /\ params[c] = params[d]
        /\ pc[c] = "returned"
        /\ pc[d] = "returned"
        /\ llm_result[c] = llm_result[d]
        /\ result[c].field_of_topic # result[c].keywords

\* C5: a request built without max_tokens has max_tokens 4000, one built
\* without temperature has temperature 0.7, and these values are the
\* max_new_tokens and temperature of the generation request.
DefaultsApply ==
    \A c \in Calls :
        pc[c] \notin {"idle", "rejected"} =>
            /\ "max_tokens" \notin DOMAIN given[c] =>
                   /\ params[c].max_tokens = <<4000>>
                   /\ Sent(c) => llm_params[c].max_new_tokens = <<4000>>
            /\ "temperature" \notin DOMAIN given[c] =>
                   /\ params[c].temperature = 7
                   /\ Sent(c) => llm_params[c].temperature = 7

DefaultsWitness ==
    \E c \in Calls :
        /\ Sent(c)
        /\ DOMAIN given[c] = {"field_of_topic", "keywords"}
        /\ llm_params[c].max_new_tokens = <<4000>>
        /\ llm_params[c].temperature = 7

\* C6: the max_tokens of a constructed request, when not None, is positive,
\* and no generation request carries a zero or negative max_new_tokens.
MaxTokensPositive ==
    \A c \in Calls :
        /\ (params[c] # NoParams /\ params[c].max_tokens # <<>>) =>
               params[c].max_tokens[1] > 0
        /\ (Sent(c) /\ llm_params[c].max_new_tokens # <<>>) =>
               llm_params[c].max_new_tokens[1] > 0

\* C7: every call that was started sent a prompt, the prompt is the template
\* text with field_of_topic and keywords in its two slots, and both values
\* occur in it character for character.
PromptFilled ==
    \A c \in Calls :
        /\ Started(c) => Sent(c)
        /\ Sent(c) =>
               /\ llm_params[c].prompt =
                      Filled(params[c].field_of_topic, params[c].keywords)
               /\ IsSubstring(params[c].field_of_topic, llm_params[c].prompt)
               /\ IsSubstring(params[c].keywords, llm_params[c].prompt)

PromptFilledWitness ==
    \E c \in Calls :
        /\ Sent(c)
        /\ params[c].field_of_topic = Slot(KeywordsName)
        /\ params[c].keywords = <<"a">>

\* C8: the generation request has exactly the four fields system_prompt,
\* prompt, max_new_tokens and temperature; system_prompt is the fixed
\* constant, prompt is the rendered prompt, max_new_tokens is the request's
\* max_tokens (None included) and temperature is the request's temperature.
RequestCarriesExactly ==
    \A c \in Calls :
        Sent(c) =>
            /\ DOMAIN llm_params[c] =
                   {"system_prompt", "prompt", "max_new_tokens", "temperature"}
            /\ llm_params[c].system_prompt = INTEREST_DISCOVERY_SYSTEM_PROMPT
            /\ llm_params[c].prompt =
                   (IF kind[c] = "discover" THEN DiscoverPrompt(params[c])
                                            ELSE AdiscoverPrompt(params[c])).text
            /\ llm_params[c].max_new_tokens = params[c].max_tokens
            /\ llm_params[c].temperature = params[c].temperature

RequestCarriesWitness ==
    \E c \in Calls :
        /\ Sent(c)
        /\ kind[c] = "adiscover"
        /\ params[c].max_tokens = <<>>
        /\ llm_params[c].max_new_tokens = <<>>
        /\ llm_params[c].temperature = 20

\* C9: in one call the steps run in the order start log, render, build,
\* invoke, wrap; the model is invoked once; the result is built and the
\* completion is logged only after the model has returned normally.
StepsInOrder ==
    \A c \in Calls :
        LET tr == trace[c]
            invoke == IF kind[c] = "discover" THEN "gentxt" ELSE "agentxt"
        IN  /\ Invocations(c) <= 1
            /\ Finished(c) /\ Sent(c) => Invocations(c) = 1
            /\ Precedes(tr, "logger.info:start", "format")
            /\ Precedes(tr, "format", "LmGentxtParams")
            /\ Precedes(tr, "LmGentxtParams", invoke)
            /\ Precedes(tr, "logger.info:start", invoke)
            /\ Precedes(tr, invoke, "model:ok")
            /\ Precedes(tr, invoke, "model:raise")
            /\ \A e \in {"InterestDiscoveryResult", "logger.success",
                         "logger.info:tokens", "return"} :
                   /\ Precedes(tr, "model:ok", e)
                   /\ Cardinality({i \in DOMAIN tr : tr[i] = e}) <= 1
            /\ Precedes(tr, "InterestDiscoveryResult", "logger.success")
            /\ Precedes(tr, "logger.success", "logger.info:tokens")
            /\ Precedes(tr, "logger.info:tokens", "return")
            /\ pc[c] = "returned" => tr[Len(tr)] = "return"

StepsInOrderWitness ==
    \E c \in Calls :
        /\ pc[c] = "returned"
        /\ kind[c] = "discover"
        /\ Len(trace[c]) = 9

\* C10: under every interleaving of adiscover calls on one instance, a
\* returned result echoes the request of its own call and carries the answer
\* the model gave to its own call, a step of one call leaves the state of
\* every other call alone, and model and logger never change.
OwnState(c) ==
    <<pc[c], kind[c], given[c], params[c], llm_params[c], llm_result[c],
      result[c], raised[c], trace[c]>>

CallsIndependent ==
    /\ [](\A c \in Calls :
            (kind[c] = "adiscover" /\ pc[c] = "returned") =>
                /\ result[c].field_of_topic = params[c].field_of_topic
                /\ result[c].keywords = params[c].keywords
                /\ llm_result[c].status = "ok"
                /\ result[c].interest_analysis = llm_result[c].value.output
                /\ result[c].input_tokens = llm_result[c].value.input_tokens
                /\ result[c].output_tokens = llm_result[c].value.output_tokens
                /\ llm_params[c].prompt =
                       Filled(params[c].field_of_topic, params[c].keywords))
    /\ [][/\ model' = model
          /\ logger' = logger
          /\ \E c \in Calls : \A d \in Calls \ {c} : OwnState(d)' = OwnState(d)]_vars

CallsIndependentWitness ==
    \E c, d \in Calls :
        /\ kind[c] = "adiscover"
        /\ kind[d] = "adiscover"
        /\ pc[c] = "returned"
        /\ pc[d] = "ready"
        /\ llm_result[d].status = "ok"
        /\ llm_result[c] # llm_result[d]
        /\ params[c] # params[d]

====
